---- MODULE Spec2Model ----
(***************************************************************************)
(* Energy Market Price Tracker (src/main.py): a Streamlit script that      *)
(* loads monthly retail electricity data once (memoized), and on every     *)
(* script run filters it by sector and date range, computes five KPIs,     *)
(* rolls the series up by granularity and optionally overlays a forecast.  *)
(*                                                                         *)
(* One script run is the chain  Fetch -> (StopOnEmpty | Pipeline); Rerun   *)
(* is Streamlit re-executing the script after a user interaction.  An      *)
(* uncaught Python exception ends the run in pc = "raised" with the        *)
(* exception's name in `exception`.                                        *)
(***************************************************************************)
EXTENDS Integers, Sequences, FiniteSets

\* ---------------------------------------------------------------- bounds
\* Rows in one API response.
MaxRows == 2
\* Consecutive months the API may report, starting at FirstPeriod.
NumPeriods == 3
\* Network requests the model follows before it stops issuing new ones.
MaxRequests == 2

\* ------------------------------------------------------ program constants
\* model.make_future_dataframe(periods=12, freq='MS')
ForecastPeriods == 12

\* ------------------------------------------------------------- calendar
\* A date is <<year, month, day>>; a period is the API's "YYYY-MM" as
\* <<year, month>>.
FirstPeriod == <<2023, 11>>

AddMonths(p, k) ==
    LET n == (p[1] * 12 + (p[2] - 1)) + k
    IN  <<n \div 12, (n % 12) + 1>>

Periods == { AddMonths(FirstPeriod, k) : k \in 0 .. (NumPeriods - 1) }

\* a < b on tuples of integers of the same length (dates, periods)
DateLt(a, b) ==
    \E i \in 1 .. Len(a) :
        /\ a[i] < b[i]
        /\ \A j \in 1 .. (i - 1) : a[j] = b[j]

DateLeq(a, b) == a = b \/ DateLt(a, b)

\* pd.to_datetime("YYYY-MM"): the first day of the month
ToDatetime(period) == <<period[1], period[2], 1>>

\* Series.dt.year
YearOf(date) == date[1]

\* ------------------------------------------------------------- raw data
Sectors == {"commercial", "residential"}

\* A numeric field as the API sends it: a string, either a numeral or text
\* that is no number (a null reads the same way).
Numeral == <<"0", "1", "2", "3", "4", "5", "6", "7", "8", "9">>
NotANumber == "n/a"
\* Prices (cents per kWh) the API is followed reporting.
Prices == {0, 1, 3}
RawPrices == {NotANumber} \cup { Numeral[p + 1] : p \in Prices }
\* (sales, revenue) of a row: the rows of the first period carry no sales
\* figure, the others carry both
RawAmounts(p) == IF p = FirstPeriod THEN <<NotANumber, "3">> ELSE <<"2", "3">>

RawRows ==
    { [period |-> p, sectorName |-> s, price |-> x,
       sales |-> RawAmounts(p)[1], revenue |-> RawAmounts(p)[2]] :
        p \in Periods, s \in Sectors, x \in RawPrices }

\* The request asks for sort[0][column]=period, direction=asc; the API holds
\* one row per (period, sector).
SortedByPeriod(rows) ==
    \A i \in 1 .. Len(rows), j \in 1 .. Len(rows) :
        i < j => /\ DateLeq(rows[i].period, rows[j].period)
                 /\ ~(rows[i].period = rows[j].period
                      /\ rows[i].sectorName = rows[j].sectorName)

RawDatasets ==
    { rows \in UNION { [1 .. n -> RawRows] : n \in 0 .. MaxRows } : SortedByPeriod(rows) }

\* What requests.get(...).json() can meet.
Responses ==
    [kind : {"network_error", "not_json", "no_envelope", "missing_fields"}, data : {<<>>}]
        \cup [kind : {"data"}, data : RawDatasets]

\* ---------------------------------------------------------------- loader
\* A cell of a numeric column: <<n>> holds the number n, <<>> is NaN.
NaN == <<>>

\* pd.to_numeric(column, errors="coerce") on one raw cell: the number the
\* string spells, or NaN
ToNumeric(raw) ==
    IF \E n \in DOMAIN Numeral : Numeral[n] = raw
    THEN << (CHOOSE n \in DOMAIN Numeral : Numeral[n] = raw) - 1 >>
    ELSE NaN

IsNaN(cell) == cell = NaN

\* lines 42-44: the DataFrame of the envelope's rows with the Date column added
\* and price made numeric
BuildFrame(rows) ==
    [i \in 1 .. Len(rows) |->
        [period     |-> rows[i].period,
         sectorName |-> rows[i].sectorName,
         price      |-> ToNumeric(rows[i].price),
         sales      |-> rows[i].sales,
         revenue    |-> rows[i].revenue,
         Date       |-> ToDatetime(rows[i].period)]]

\* df.dropna(subset=["price"])
DropNaPrice(frame) == SelectSeq(frame, LAMBDA r : ~IsNaN(r.price))

\* pd.DataFrame()
EmptyFrame == <<>>

\* fetch_eia_data's body on one response: the exception it raises ("none" when
\* it returns) and the frame it returns.
\*   network_error   requests.get raises
\*   not_json        response.json() raises
\*   no_envelope     the else branch: pd.DataFrame()
\*   missing_fields  rows without period/price: df["period"] raises KeyError
\*   data            an empty list gives a frame without columns, so
\*                   df["period"] raises KeyError too
FetchBody(resp) ==
    CASE resp.kind = "network_error"  -> [exception |-> "ConnectionError", frame |-> EmptyFrame]
      [] resp.kind = "not_json"       -> [exception |-> "JSONDecodeError", frame |-> EmptyFrame]
      [] resp.kind = "no_envelope"    -> [exception |-> "none", frame |-> EmptyFrame]
      [] resp.kind = "missing_fields" -> [exception |-> "KeyError", frame |-> EmptyFrame]
      [] resp.kind = "data" ->
            IF Len(resp.data) = 0
            THEN [exception |-> "KeyError", frame |-> EmptyFrame]
            ELSE [exception |-> "none", frame |-> DropNaPrice(BuildFrame(resp.data))]

\* The case of fetch_eia_data's body a response takes
Outcome(resp) ==
    IF resp.kind = "data" /\ Len(resp.data) = 0 THEN "empty_data" ELSE resp.kind

\* df.empty
IsEmpty(frame) == Len(frame) = 0

\* ----------------------------------------------------------------- state
NoDate == <<0, 0, 0>>
NoFigure == [trace |-> <<>>, forecast |-> <<>>, has_forecast |-> FALSE]

VARIABLES
    pc,              \* where the current script run stands
    cache,           \* st.cache_data's entry for fetch_eia_data: <<>> or <<frame>>
    requests,        \* network requests issued since the process started
    response,        \* Outcome of the response to this run's request ("none": no request)
    fetch_calls,     \* calls of fetch_eia_data in this run
    df,              \* line 51
    selected_sector, start_date, end_date, granularity, show_forecast,
    widgets_read,    \* the sidebar controls were read in this run
    kpi_df,          \* lines 73-81
    kpi_data,        \* lines 91-97, as rendered in the five cards
    info,            \* st.info's sentence (Monthly only)
    fig,             \* the figure: the base trace and the forecast trace
    prophet_calls,   \* Prophet fits in this run
    plotted,         \* st.plotly_chart was reached
    errors,          \* st.error messages shown in this run
    exception        \* the uncaught exception that ended this run, or "none"

run_vars == <<selected_sector, start_date, end_date, granularity, show_forecast,
              widgets_read, kpi_df, kpi_data, info, fig, prophet_calls, plotted, errors>>
vars == <<pc, cache, requests, response, fetch_calls, df, run_vars, exception>>

\* A fresh script run: nothing read, nothing rendered.
FreshRun ==
    /\ selected_sector = "" /\ start_date = NoDate /\ end_date = NoDate
    /\ granularity = "" /\ show_forecast = FALSE /\ widgets_read = FALSE
    /\ kpi_df = <<>> /\ kpi_data = <<>> /\ info = <<>> /\ fig = NoFigure
    /\ prophet_calls = 0 /\ plotted = FALSE /\ errors = <<>>

Init ==
    /\ pc = "start"
    /\ cache = <<>>
    /\ requests = 0
    /\ response = "none"
    /\ fetch_calls = 0
    /\ df = EmptyFrame
    /\ exception = "none"
    /\ FreshRun

\* ------------------------------------------------------------ line 51
\* fetch_eia_data() with the memoized value present: no request.
FetchCached ==
    /\ pc = "start"
    /\ cache # <<>>
    /\ df' = cache[1]
    /\ fetch_calls' = fetch_calls + 1
    /\ pc' = "fetched"
    /\ UNCHANGED <<cache, requests, response, run_vars, exception>>

\* fetch_eia_data() with no memoized value: one request; st.cache_data stores
\* the value the function returns, and nothing when it raises.
FetchRequest ==
    /\ pc = "start"
    /\ cache = <<>>
    /\ requests < MaxRequests
    /\ \E resp \in Responses :
         LET r == FetchBody(resp) IN
         /\ requests' = requests + 1
         /\ response' = Outcome(resp)
         /\ fetch_calls' = fetch_calls + 1
         /\ IF r.exception = "none"
            THEN /\ cache' = <<r.frame>>
                 /\ df' = r.frame
                 /\ pc' = "fetched"
                 /\ UNCHANGED exception
            ELSE /\ exception' = r.exception
                 /\ pc' = "raised"
                 /\ UNCHANGED <<cache, df>>
    /\ UNCHANGED run_vars

\* ---------------------------------------------------------- lines 53-55
\* StopOnEmpty without st.stop(): the script goes on to line 60, where
\* df["sectorName"] on the frame without columns raises KeyError
StopOnEmpty_NoStop ==
    /\ pc = "fetched"
    /\ IsEmpty(df)
    /\ errors' = Append(errors, "Failed to load data from EIA API.")
    /\ exception' = "KeyError"
    /\ pc' = "raised"
    /\ UNCHANGED <<cache, requests, response, fetch_calls, df,
                   selected_sector, start_date, end_date, granularity, show_forecast,
                   widgets_read, kpi_df, kpi_data, info, fig, prophet_calls, plotted>>

StopOnEmpty ==
    /\ pc = "fetched"
    /\ IsEmpty(df)
    /\ errors' = Append(errors, "Failed to load data from EIA API.")
    /\ pc' = "stopped"
    /\ UNCHANGED <<cache, requests, response, fetch_calls, df, exception,
                   selected_sector, start_date, end_date, granularity, show_forecast,
                   widgets_read, kpi_df, kpi_data, info, fig, prophet_calls, plotted>>

\* ------------------------------------------------------------- floats
\* A float scalar: a rational n/d (d > 0), an infinity or NaN.
Num(n, d) == [k |-> "num", n |-> n, d |-> d]
NaNf == [k |-> "nan", n |-> 0, d |-> 1]
Inf == [k |-> "inf", n |-> 1, d |-> 1]
NegInf == [k |-> "-inf", n |-> -1, d |-> 1]

\* pd.notna(x)
NotNa(x) == x.k # "nan"

\* n/d rounded to the nearest integer, ties to even (d > 0)
RoundHalfEven(n, d) ==
    LET q == n \div d
        r == n % d
    IN  IF 2 * r < d THEN q
        ELSE IF 2 * r > d THEN q + 1
        ELSE IF q % 2 = 0 THEN q ELSE q + 1

\* f"{x:.2f}" followed by `suffix`: the digits are kept as hundredths
Format2f(x, suffix) ==
    IF x.k = "num"
    THEN [text |-> "0.00" \o suffix, value |-> RoundHalfEven(100 * x.n, x.d)]
    ELSE [text |-> x.k \o suffix, value |-> 0]

\* prefix followed by f"{x:,.0f}": the digits are kept as units
FormatGrouped(x, prefix) ==
    IF x.k = "num"
    THEN [text |-> prefix \o "0,000", value |-> RoundHalfEven(x.n, x.d)]
    ELSE [text |-> prefix \o x.k, value |-> 0]

NA == [text |-> "N/A", value |-> 0]

\* ------------------------------------------------------ pandas reductions
Present(cells) == SelectSeq(cells, LAMBDA c : ~IsNaN(c))

RECURSIVE SumCells(_)
SumCells(cells) ==
    IF Len(cells) = 0 THEN 0 ELSE Head(cells)[1] + SumCells(Tail(cells))

RECURSIVE MaxCells(_)
MaxCells(cells) ==
    IF Len(cells) = 1 THEN Head(cells)[1]
    ELSE LET m == MaxCells(Tail(cells))
         IN  IF Head(cells)[1] > m THEN Head(cells)[1] ELSE m

Column(frame, name) == [i \in 1 .. Len(frame) |-> frame[i][name]]

\* Series.mean(): NaN cells skipped, NaN when none is left
Mean(cells) ==
    LET p == Present(cells)
    IN  IF Len(p) = 0 THEN NaNf ELSE Num(SumCells(p), Len(p))

\* Series.max(): NaN cells skipped, NaN when none is left
Max(cells) ==
    LET p == Present(cells)
    IN  IF Len(p) = 0 THEN NaNf ELSE Num(MaxCells(p), 1)

\* Series.sum(): NaN cells skipped, 0 when none is left
Sum(cells) == Num(SumCells(Present(cells)), 1)

\* ((last - first) / first) * 100 on float64: a zero divisor gives an infinity
\* or NaN, not an exception
PercentChange(first, last) ==
    IF IsNaN(first) \/ IsNaN(last) THEN NaNf
    ELSE IF first[1] = 0
         THEN IF last[1] > 0 THEN Inf
              ELSE IF last[1] < 0 THEN NegInf
              ELSE NaNf
         ELSE IF first[1] > 0 THEN Num((last[1] - first[1]) * 100, first[1])
              ELSE Num((first[1] - last[1]) * 100, 0 - first[1])

\* ---------------------------------------------------------- lines 58-70
\* df["sectorName"].unique()
SectorOptions(frame) == { frame[i].sectorName : i \in 1 .. Len(frame) }

\* df["Date"].min().date(), df["Date"].max().date()
MinDate(frame) ==
    CHOOSE d \in { frame[i].Date : i \in 1 .. Len(frame) } :
        \A i \in 1 .. Len(frame) : DateLeq(d, frame[i].Date)
MaxDate(frame) ==
    CHOOSE d \in { frame[i].Date : i \in 1 .. Len(frame) } :
        \A i \in 1 .. Len(frame) : DateLeq(frame[i].Date, d)

\* Days of a month the user is followed picking in a date control.
PickDays == {1}

\* st.date_input(..., min_value=min_date, max_value=max_date): any day of the range
DateChoices(min_date, max_date) ==
    { d \in { <<p[1], p[2], k>> : p \in Periods, k \in PickDays } :
        DateLeq(min_date, d) /\ DateLeq(d, max_date) }

Granularities == {"Monthly", "Yearly"}

\* ---------------------------------------------------------- lines 73-81
\* FilterStage with the lower bound exclusive (> for >= on line 75)
FilterStage_ExclusiveStart(frame, sector, start, end) ==
    SelectSeq(frame, LAMBDA r : /\ r.sectorName = sector
                                /\ DateLt(start, r.Date)
                                /\ DateLeq(r.Date, end))

\* The boolean mask of lines 73-77, applied in the frame's order.
FilterStage(frame, sector, start, end) ==
    SelectSeq(frame, LAMBDA r : /\ r.sectorName = sector
                                /\ DateLeq(start, r.Date)
                                /\ DateLeq(r.Date, end))

\* lines 79-81: sales and revenue made numeric (price already is)
KpiFrame(frame) ==
    [i \in 1 .. Len(frame) |->
        [frame[i] EXCEPT !.sales = ToNumeric(@), !.revenue = ToNumeric(@)]]

\* ---------------------------------------------------------- lines 83-97
\* The five cards, given a frame with at least one row.
KpiData(frame) ==
    LET price         == Column(frame, "price")
        average_price == Mean(price)
        max_price     == Max(price)
        price_change  == PercentChange(price[1], price[Len(price)])
        sales_total   == Sum(Column(frame, "sales"))
        revenue_total == Sum(Column(frame, "revenue"))
    IN  << IF NotNa(average_price) THEN Format2f(average_price, "") ELSE NA,
           IF NotNa(max_price) THEN Format2f(max_price, "") ELSE NA,
           IF NotNa(price_change) THEN Format2f(price_change, "%") ELSE NA,
           IF NotNa(sales_total) THEN FormatGrouped(sales_total, "") ELSE NA,
           IF NotNa(revenue_total) THEN FormatGrouped(revenue_total, "$") ELSE NA >>

\* --------------------------------------------------------- lines 109-115
CellToFloat(cell) == IF IsNaN(cell) THEN NaNf ELSE Num(cell[1], 1)

RECURSIVE SortedKeys(_)
\* the keys of a groupby, ascending (keys are tuples of integers)
SortedKeys(S) ==
    IF S = {} THEN <<>>
    ELSE LET m == CHOOSE a \in S : \A b \in S : DateLeq(a, b)
         IN  <<m>> \o SortedKeys(S \ {m})

\* GroupByYear with agg({"price": "sum"})
GroupByYear_Sum(frame) ==
    LET years == SortedKeys({ <<YearOf(frame[i].Date)>> : i \in 1 .. Len(frame) })
    IN  [g \in 1 .. Len(years) |->
            [x |-> years[g],
             y |-> Sum(Column(SelectSeq(frame, LAMBDA r : <<YearOf(r.Date)>> = years[g]),
                              "price"))]]

\* filtered_df.groupby("Year").agg({"price": "mean"}).reset_index(): one row
\* per year of the frame, years ascending, price the mean of the year's rows
GroupByYear(frame) ==
    LET years == SortedKeys({ <<YearOf(frame[i].Date)>> : i \in 1 .. Len(frame) })
    IN  [g \in 1 .. Len(years) |->
            [x |-> years[g],
             y |-> Mean(Column(SelectSeq(frame, LAMBDA r : <<YearOf(r.Date)>> = years[g]),
                               "price"))]]

\* The (x, y) points px.line draws: x is the Date (Monthly) or <<Year>> (Yearly)
Rollup(frame, gran) ==
    IF gran = "Yearly"
    THEN GroupByYear(frame)
    ELSE [i \in 1 .. Len(frame) |-> [x |-> frame[i].Date, y |-> CellToFloat(frame[i].price)]]

\* --------------------------------------------------------- lines 118-123
\* date.strftime('%B %Y')
MonthYear(date) == <<date[2], date[1]>>

Insight(frame, sector, start, end) ==
    LET price == Column(frame, "price")
        trend == IF price[Len(price)][1] > price[1][1] THEN "increased" ELSE "decreased"
    IN  [from    |-> MonthYear(start),
         to      |-> MonthYear(end),
         sector  |-> sector,
         trend   |-> trend,
         average |-> Format2f(Mean(price), ""),
         peak    |-> Format2f(Max(price), "")]

\* --------------------------------------------------------- lines 135-149
\* line 135 without the toggle
ForecastEnabled_IgnoresToggle(show, gran) == gran = "Monthly"

\* line 135
ForecastEnabled(show, gran) == show /\ gran = "Monthly"

\* The first day of the k-th month after the month of `date`
MonthStart(date, k) ==
    LET p == AddMonths(<<date[1], date[2]>>, k) IN <<p[1], p[2], 1>>

\* pd.date_range(start, periods=n, freq='MS'): n month starts, the first one
\* being `start` itself when it is a month start
DateRangeMS(start, n) ==
    LET off == IF start[3] = 1 THEN 0 ELSE 1
    IN  [i \in 1 .. n |-> MonthStart(start, off + i - 1)]

\* Prophet.fit keeps the rows whose y is not null and raises ValueError with
\* fewer than two of them
ProphetFitRaises(prophet_df) ==
    Len(SelectSeq(prophet_df, LAMBDA r : ~IsNaN(r.y))) < 2

\* Prophet.history_dates: the distinct ds of the fitted frame, ascending
HistoryDates(prophet_df) ==
    SortedKeys({ prophet_df[i].ds : i \in 1 .. Len(prophet_df) })

\* MakeFutureDataframe with include_history=False
MakeFutureDataframe_NoHistory(history_dates, periods) ==
    LET last_date == history_dates[Len(history_dates)]
    IN  SubSeq(SelectSeq(DateRangeMS(last_date, periods + 1),
                         LAMBDA d : DateLt(last_date, d)), 1, periods)

\* Prophet.make_future_dataframe(periods, freq='MS', include_history=True):
\* the history dates followed by `periods` month starts after the last one
MakeFutureDataframe(history_dates, periods) ==
    LET last_date == history_dates[Len(history_dates)]
        dates     == SelectSeq(DateRangeMS(last_date, periods + 1),
                               LAMBDA d : DateLt(last_date, d))
    IN  history_dates \o SubSeq(dates, 1, periods)

\* model.predict(future): one point estimate per date of `future`; the
\* estimate itself is the library's and is left opaque
Predict(future) == [i \in 1 .. Len(future) |-> [ds |-> future[i], yhat |-> "yhat"]]

\* Lines 135-151 on the monthly frame `frame` and the figure `base` of line
\* 126: the exception raised ("none": st.plotly_chart is reached), the figure,
\* and the number of Prophet fits.
ForecastStep(frame, gran, show, base) ==
    LET prophet_df == [i \in 1 .. Len(frame) |-> [ds |-> frame[i].Date, y |-> frame[i].price]]
    IN  IF ~ForecastEnabled(show, gran)
        THEN [exception |-> "none", fig |-> base, prophet_calls |-> 0]
        ELSE IF gran # "Monthly"
        \* filtered_df[["Date", "price"]] on the yearly frame, which has no Date
        THEN [exception |-> "KeyError", fig |-> base, prophet_calls |-> 0]
        ELSE IF ProphetFitRaises(prophet_df)
        THEN [exception |-> "ValueError", fig |-> base, prophet_calls |-> 1]
        ELSE [exception |-> "none",
              fig |-> [base EXCEPT
                         !.forecast = Predict(MakeFutureDataframe(HistoryDates(prophet_df),
                                                                  ForecastPeriods)),
                         !.has_forecast = TRUE],
              prophet_calls |-> 1]

\* ---------------------------------------------------------- lines 58-151
\* The script after the guard of line 53, on the controls the user has set.
\* kpi_df["price"].iloc[-1] on a frame without rows raises IndexError (line
\* 85) before any card is rendered; an exception of the forecast branch leaves
\* the cards and the sentence rendered and the figure not plotted.
Pipeline ==
    /\ pc = "fetched"
    /\ ~IsEmpty(df)
    /\ selected_sector' \in SectorOptions(df)
    /\ \E choices \in {DateChoices(MinDate(df), MaxDate(df))} :
         /\ start_date' \in choices
         /\ end_date' \in choices
    /\ granularity' \in Granularities
    /\ show_forecast' \in BOOLEAN
    /\ widgets_read' = TRUE
    /\ kpi_df' = KpiFrame(FilterStage(df, selected_sector', start_date', end_date'))
    /\ IF Len(kpi_df') = 0
       THEN /\ exception' = "IndexError"
            /\ pc' = "raised"
            /\ UNCHANGED <<kpi_data, info, fig, prophet_calls, plotted>>
       ELSE /\ kpi_data' = KpiData(kpi_df')
            /\ info' = IF granularity' = "Monthly"
                       THEN <<Insight(kpi_df', selected_sector', start_date', end_date')>>
                       ELSE <<>>
            /\ \E step \in {ForecastStep(kpi_df', granularity', show_forecast',
                                         [trace |-> Rollup(kpi_df', granularity'),
                                          forecast |-> <<>>, has_forecast |-> FALSE])} :
                 /\ fig' = step.fig
                 /\ prophet_calls' = step.prophet_calls
                 /\ exception' = step.exception
                 /\ plotted' = (step.exception = "none")
                 /\ pc' = IF step.exception = "none" THEN "done" ELSE "raised"
    /\ UNCHANGED <<cache, requests, response, fetch_calls, df, errors>>

\* ------------------------------------------------------------- reruns
\* A user interaction, or a reload of the page: Streamlit runs the script again
\* from its first line.  Only st.cache_data's entry outlives the run.
Rerun ==
    /\ pc \in {"stopped", "raised", "done"}
    /\ pc' = "start"
    /\ response' = "none"
    /\ fetch_calls' = 0
    /\ df' = EmptyFrame
    /\ exception' = "none"
    /\ selected_sector' = "" /\ start_date' = NoDate /\ end_date' = NoDate
    /\ granularity' = "" /\ show_forecast' = FALSE /\ widgets_read' = FALSE
    /\ kpi_df' = <<>> /\ kpi_data' = <<>> /\ info' = <<>> /\ fig' = NoFigure
    /\ prophet_calls' = 0 /\ plotted' = FALSE /\ errors' = <<>>
    /\ UNCHANGED <<cache, requests>>

Next ==
    \/ FetchCached
    \/ FetchRequest
    \/ StopOnEmpty
    \/ Pipeline
    \/ Rerun

Spec == Init /\ [][Next]_vars

\* =================================================================
\* Properties
\* =================================================================
\* The current run is over.
RunEnded == pc \in {"stopped", "raised", "done"}

\* fetch_eia_data returned in the current run (st.cache_data holds what it
\* returned) and its frame has no rows.
LoaderReturnedEmpty == pc # "start" /\ cache # <<>> /\ IsEmpty(cache[1])

ErrorMessage == "Failed to load data from EIA API."

\* The rows of df the criteria select, by position.
Selected ==
    { i \in 1 .. Len(df) :
        /\ df[i].sectorName = selected_sector
        /\ ~DateLt(df[i].Date, start_date)
        /\ ~DateLt(end_date, df[i].Date) }

\* C1: with start <= end, the filter keeps exactly the rows of the dataset
\* whose sector is the selected one and whose period lies in [start, end],
\* both bounds included: each kept row satisfies both conditions, each row
\* satisfying both is kept, once, and in the dataset's order.
C1_FilterKeepsExactlyMatching ==
    (widgets_read /\ DateLeq(start_date, end_date)) =>
        /\ \A k \in 1 .. Len(kpi_df) :
              /\ kpi_df[k].sectorName = selected_sector
              /\ DateLeq(start_date, kpi_df[k].Date)
              /\ DateLeq(kpi_df[k].Date, end_date)
        /\ \A i \in Selected :
              \E k \in 1 .. Len(kpi_df) :
                  /\ kpi_df[k].period = df[i].period
                  /\ kpi_df[k].sectorName = df[i].sectorName
                  /\ kpi_df[k].price = df[i].price
        /\ Len(kpi_df) = Cardinality(Selected)
        /\ \A k \in 1 .. Len(kpi_df), l \in 1 .. Len(kpi_df) :
              k < l => DateLeq(kpi_df[k].Date, kpi_df[l].Date)

\* C1 witness: a run whose filter keeps a row dated exactly the start and the
\* end date and drops another row of the dataset.
C1_Witness ==
    /\ pc = "done"
    /\ Len(kpi_df) = 1
    /\ Len(df) = 2
    /\ kpi_df[1].Date = start_date
    /\ kpi_df[1].Date = end_date

\* C2 (as claimed): a run whose filtered set has no rows does not raise and
\* reports average, maximum and percent change as "N/A" and both totals as 0.
C2_EmptyFilterReportsNA ==
    (RunEnded /\ widgets_read /\ Len(kpi_df) = 0) =>
        /\ exception = "none"
        /\ kpi_data = <<NA, NA, NA,
                        FormatGrouped(Num(0, 1), ""), FormatGrouped(Num(0, 1), "$")>>

\* C3 (as claimed): whatever the request meets, the loader does not raise;
\* on a network error, a body that is not JSON, a missing envelope, an empty
\* data list or rows without period/price it returns the empty Dataset.
C3_LoaderNeverRaises ==
    response \in {"network_error", "not_json", "no_envelope", "missing_fields", "empty_data"} =>
        /\ exception = "none"
        /\ pc # "raised"
        /\ IsEmpty(df)

\* C4: when the loader returns an empty Dataset, the run shows the one "failed
\* to load data" error and halts: no control is read, no KPI, sentence, chart
\* or forecast is produced and the loader is called once; the only step after
\* the guard is the error, and the only step after the error is a new run.
C4_EmptyLoadHalts ==
    /\ [](LoaderReturnedEmpty =>
            /\ pc \in {"fetched", "stopped"}
            /\ (pc = "stopped" <=> errors = <<ErrorMessage>>)
            /\ (pc = "fetched" <=> errors = <<>>)
            /\ ~widgets_read
            /\ kpi_df = <<>> /\ kpi_data = <<>> /\ info = <<>>
            /\ fig = NoFigure /\ ~plotted /\ prophet_calls = 0
            /\ fetch_calls = 1
            /\ exception = "none")
    /\ [][(LoaderReturnedEmpty /\ pc = "fetched") => pc' = "stopped"]_vars
    /\ [][pc = "stopped" => pc' = "start"]_vars

\* C4 witness: the error state, reached on a response whose rows all have an
\* unparseable price.
C4_Witness ==
    /\ pc = "stopped"
    /\ errors = <<ErrorMessage>>
    /\ response = "data"

\* C5 (as claimed): the network request is issued at most once in a process.
C5_AtMostOneRequest == requests <= 1

\* C6: Prophet is fitted, and the figure carries a forecast trace, only in
\* runs with the toggle on and granularity Monthly.
C6_ForecastOnlyWhenEnabled ==
    (prophet_calls > 0 \/ fig.has_forecast \/ Len(fig.forecast) > 0) =>
        (show_forecast /\ granularity = "Monthly")

\* C6 witness: a finished run whose figure carries the forecast trace.
C6_Witness ==
    /\ pc = "done"
    /\ fig.has_forecast
    /\ prophet_calls = 1

\* Months since year 0 of a date
MonthIndex(date) == date[1] * 12 + (date[2] - 1)

\* The forecast trace's dates are month starts, one month apart.
MonthlyCadence(trace) ==
    /\ \A i \in 1 .. Len(trace) : trace[i].ds[3] = 1
    /\ \A i \in 1 .. (Len(trace) - 1) :
          MonthIndex(trace[i + 1].ds) = MonthIndex(trace[i].ds) + 1

\* C7 (as claimed): a forecast trace has exactly 12 points, at monthly
\* cadence, the first being the month after the last date of the input.
C7_ExactlyTwelvePoints ==
    fig.has_forecast =>
        /\ Len(fig.forecast) = 12
        /\ MonthlyCadence(fig.forecast)
        /\ MonthIndex(fig.forecast[1].ds) = MonthIndex(kpi_df[Len(kpi_df)].Date) + 1

\* C7 (amended): a forecast trace has one point per distinct date of the input
\* series, in ascending order, followed by exactly 12 points at monthly cadence
\* of which the first is the month start after the last input date; every
\* point has an estimate.
C7_HistoryThenTwelveMonths ==
    fig.has_forecast =>
        LET dates == { kpi_df[i].Date : i \in 1 .. Len(kpi_df) }
            n     == Cardinality(dates)
            f     == fig.forecast
        IN  /\ Len(f) = n + 12
            /\ { f[i].ds : i \in 1 .. n } = dates
            /\ \A i \in 1 .. (Len(f) - 1) : DateLt(f[i].ds, f[i + 1].ds)
            /\ MonthlyCadence(SubSeq(f, n + 1, n + 12))
            /\ MonthIndex(f[n + 1].ds) = MonthIndex(f[n].ds) + 1
            /\ \A d \in dates : DateLeq(d, f[n].ds)
            /\ \A i \in 1 .. Len(f) : f[i].yhat = "yhat"

\* C7 witness: a forecast over two input months, 14 points, running into the
\* next calendar year.
C7_Witness ==
    /\ fig.has_forecast
    /\ Len(kpi_df) = 2
    /\ Len(fig.forecast) = 14
    /\ YearOf(fig.forecast[14].ds) > YearOf(fig.forecast[1].ds)

\* C8 (as claimed), on the runs that reach the forecast branch with a single
\* row: the run does not raise, the forecast is left out and the chart is
\* still rendered.
C8_DegenerateForecastOmitted ==
    (RunEnded /\ widgets_read /\ show_forecast /\ granularity = "Monthly"
       /\ Len(kpi_df) = 1) =>
        /\ exception = "none"
        /\ plotted
        /\ ~fig.has_forecast

\* C9 (as claimed): with at least one filtered row and a first price of
\* zero, the percent-change card reads "N/A".
C9_ZeroFirstPriceIsNA ==
    (Len(kpi_data) = 5 /\ Len(kpi_df) > 0 /\ kpi_df[1].price = <<0>>) =>
        kpi_data[3] = NA

\* The years of the filtered rows, their row counts and price totals.
FilteredYears == { YearOf(kpi_df[i].Date) : i \in 1 .. Len(kpi_df) }
RowsOfYear(y) == { i \in 1 .. Len(kpi_df) : YearOf(kpi_df[i].Date) = y }
RECURSIVE TotalOver(_)
TotalOver(rows) ==
    IF rows = {} THEN 0
    ELSE LET i == CHOOSE j \in rows : TRUE
         IN  kpi_df[i].price[1] + TotalOver(rows \ {i})

\* C10: in Yearly granularity the chart has exactly one point per calendar
\* year of the filtered rows, years ascending, and each point's price is the
\* arithmetic mean of that year's filtered prices.
C10_YearlyRollup ==
    (pc = "done" /\ granularity = "Yearly") =>
        LET t == fig.trace IN
        /\ Len(t) = Cardinality(FilteredYears)
        /\ { t[g].x[1] : g \in 1 .. Len(t) } = FilteredYears
        /\ \A g \in 1 .. (Len(t) - 1) : t[g].x[1] < t[g + 1].x[1]
        /\ \A g \in 1 .. Len(t) :
              /\ t[g].y.k = "num"
              /\ t[g].y.n * Cardinality(RowsOfYear(t[g].x[1]))
                    = t[g].y.d * TotalOver(RowsOfYear(t[g].x[1]))

\* C10 witness: a yearly chart of one point that averages two months of
\* different price.
C10_Witness ==
    /\ pc = "done"
    /\ granularity = "Yearly"
    /\ Len(kpi_df) = 2
    /\ Len(fig.trace) = 1
    /\ kpi_df[1].price # kpi_df[2].price

====
